---- MODULE Spec2Model ----
(***************************************************************************)
(* The code-review assistant: the React client (App, CodeEditor,           *)
(* ResultsPanel), the scanner scripts of backend/scanners, and the         *)
(* diagnostic dispatcher the client posts its review requests to.          *)
(*                                                                         *)
(* Text is a sequence of characters over a three-letter alphabet: "a" is   *)
(* what the user types, "b" is what a fix writes, "\n" separates lines.    *)
(* JavaScript values that may be absent are tagged records, so that        *)
(* undefined, null, "" and a non-empty string stay four different values.  *)
(***************************************************************************)
EXTENDS Integers, Sequences, FiniteSets, TLC

VARIABLES
    code,          \* App: useState(DEFAULT_CODE)
    language,      \* App: useState('python')
    diagnostics,   \* App: useState([])
    isReviewing,   \* App: useState(false)
    theme,         \* App: useState('light')
    preferences,   \* App: useState({selectedLanguages, enableSecurity, ...})
    mounted,       \* CodeEditor: editorRef/monacoRef set by handleEditorDidMount
    markers,       \* Monaco model markers of owner 'code-review-assistant'
    decorations,   \* CodeEditor: decorationsRef, the decorations now applied
    inflight,      \* the review requests sent and not yet settled
    settled,       \* history: how the last settled review ended
    last,          \* history: the last handleApplyFix call and the state before it
    script,        \* the scanner script processes (run_semgrep.sh, run_bandit.sh)
    dispatch       \* the dispatcher's handling of one review request

clientVars == <<code, language, diagnostics, isReviewing, theme, preferences,
                mounted, markers, decorations, inflight, settled, last>>
scanVars == <<script, dispatch>>
vars == <<code, language, diagnostics, isReviewing, theme, preferences,
          mounted, markers, decorations, inflight, settled, last, script, dispatch>>

----------------------------------------------------------------------------
(* Bounds *)

\* longest text the user types into the editor
MaxTyped == 2
\* longest source text kept (a fix with a line break makes the text longer)
MaxCodeLen == 3
\* longest fix text
MaxFixLen == 1
\* most diagnostics in one response
MaxDiags == 2

----------------------------------------------------------------------------
(* Text *)

NL == "\n"

SeqsUpTo(S, n) == UNION {[1..k -> S] : k \in 0..n}

\* what the user can type
TypedTexts == SeqsUpTo({"a", NL}, MaxTyped)

\* String.prototype.split('\n'): the text cut at every line break; the empty
\* text is one empty line
RECURSIVE Split(_)
Split(s) ==
    IF \A i \in 1..Len(s) : s[i] # NL
    THEN <<s>>
    ELSE LET i == CHOOSE k \in 1..Len(s) : s[k] = NL /\ \A j \in 1..(k-1) : s[j] # NL
         IN  <<SubSeq(s, 1, i-1)>> \o Split(SubSeq(s, i+1, Len(s)))

\* Array.prototype.join('\n')
RECURSIVE Join(_)
Join(lines) ==
    IF Len(lines) = 0 THEN <<>>
    ELSE IF Len(lines) = 1 THEN lines[1]
    ELSE lines[1] \o <<NL>> \o Join(Tail(lines))

----------------------------------------------------------------------------
(* JavaScript values *)

Undefined == [t |-> "undefined"]
Null == [t |-> "null"]
Str(s) == [t |-> "string", v |-> s]
Num(n) == [t |-> "number", v |-> n]
Arr(s) == [t |-> "array", v |-> s]

Truthy_emptyString(v) ==
    CASE v.t = "undefined" -> FALSE
      [] v.t = "null" -> FALSE
      [] v.t = "string" -> TRUE
      [] v.t = "number" -> v.v # 0
      [] v.t = "array" -> TRUE

\* ToBoolean, as !x, x && y and x || y apply it
Truthy(v) ==
    CASE v.t = "undefined" -> FALSE
      [] v.t = "null" -> FALSE
      [] v.t = "string" -> v.v # <<>>
      [] v.t = "number" -> v.v # 0
      [] v.t = "array" -> TRUE

----------------------------------------------------------------------------
(* Diagnostics *)

Severities == {"error", "warning", "suggestion", "info"}

Diagnostic(sev, msg, ln, col, rule, fx) ==
    [severity |-> sev, message |-> msg, line |-> ln, column |-> col,
     ruleId |-> rule, fix |-> fx]

\* the fix of a diagnostic: absent, null, or a string (empty, one line, or
\* holding a line break)
FixValues == {Undefined, Null} \cup {Str(s) : s \in SeqsUpTo({"b", NL}, MaxFixLen)}

\* the diagnostics handleApplyFix is called with: every line from below the
\* first to beyond the last line a text can have
FixInputs ==
    {Diagnostic("suggestion", "m", ln, Num(1), "F521", fx) :
        ln \in (0 - 1)..(MaxCodeLen + 2), fx \in FixValues}

\* the diagnostics of a panel with two fixes to apply: each for the first or
\* the second line, each with a non-empty fix of up to MaxFixLen + 1
\* characters, so that two fixes of one line each can differ
TwoFixInputs ==
    {Diagnostic("suggestion", "m", ln, Num(1), "F521", Str(s)) :
        ln \in 1..2, s \in SeqsUpTo({"b", NL}, MaxFixLen + 1) \ {<<>>}}

----------------------------------------------------------------------------
(* The client: App *)

\* the example program the editor starts with, cut down to the alphabet: a
\* line of text and the line break that ends it
DEFAULT_CODE == <<"a", NL>>

NoCall == [op |-> "none"]

NoReview == [outcome |-> "none"]

Snapshot ==
    [code |-> code, language |-> language, diagnostics |-> diagnostics,
     isReviewing |-> isReviewing, theme |-> theme, preferences |-> preferences,
     markers |-> markers, decorations |-> decorations, inflight |-> inflight]

ClientInit ==
    /\ code = DEFAULT_CODE
    /\ language = "python"
    /\ diagnostics = <<>>
    /\ isReviewing = FALSE
    /\ theme = "light"
    /\ preferences = [selectedLanguages |-> <<"javascript", "python">>,
                      enableSecurity |-> TRUE, enableLLM |-> FALSE,
                      runOnSave |-> FALSE]
    /\ mounted = FALSE
    /\ markers = <<>>
    /\ decorations = <<>>
    /\ inflight = <<>>
    /\ settled = NoReview
    /\ last = NoCall

ApplyFix_insertLine(text, diagnostic) ==
    IF ~Truthy(diagnostic.fix) THEN text
    ELSE LET lines == Split(text)
         IN  IF diagnostic.line > 0 /\ diagnostic.line <= Len(lines)
             THEN Join(SubSeq(lines, 1, diagnostic.line) \o <<diagnostic.fix.v>>
                       \o SubSeq(lines, diagnostic.line + 1, Len(lines)))
             ELSE text

ApplyFix_clampLine(text, diagnostic) ==
    IF ~Truthy(diagnostic.fix) THEN text
    ELSE LET lines == Split(text)
             line == IF diagnostic.line > Len(lines) THEN Len(lines) ELSE diagnostic.line
         IN  IF line > 0
             THEN Join([lines EXCEPT ![line] = diagnostic.fix.v])
             ELSE text

ApplyFix_offByOne(text, diagnostic) ==
    IF ~Truthy(diagnostic.fix) THEN text
    ELSE LET lines == Split(text)
         IN  IF diagnostic.line >= 0 /\ diagnostic.line < Len(lines)
             THEN Join([lines EXCEPT ![diagnostic.line + 1] = diagnostic.fix.v])
             ELSE text

ApplyFix_appendToLine(text, diagnostic) ==
    IF ~Truthy(diagnostic.fix) THEN text
    ELSE LET lines == Split(text)
         IN  IF diagnostic.line > 0 /\ diagnostic.line <= Len(lines)
             THEN Join([lines EXCEPT ![diagnostic.line] = @ \o diagnostic.fix.v])
             ELSE text

\* the text handleApplyFix leaves in `code`
ApplyFix(text, diagnostic) ==
    IF ~Truthy(diagnostic.fix) THEN text
    ELSE LET lines == Split(text)
         IN  IF diagnostic.line > 0 /\ diagnostic.line <= Len(lines)
             THEN Join([lines EXCEPT ![diagnostic.line] = diagnostic.fix.v])
             ELSE text

handleApplyFix_dropsApplied(diagnostic) ==
    /\ Len(ApplyFix(code, diagnostic)) <= MaxCodeLen
    /\ code' = ApplyFix(code, diagnostic)
    /\ diagnostics' = LET Other(d) == d # diagnostic IN SelectSeq(diagnostics, Other)
    /\ last' = [op |-> "handleApplyFix", diagnostic |-> diagnostic, before |-> Snapshot]
    /\ UNCHANGED <<language, isReviewing, theme, preferences,
                   mounted, markers, decorations, inflight, settled>>
    /\ UNCHANGED scanVars

\* handleApplyFix; the model keeps no text longer than MaxCodeLen
handleApplyFix(diagnostic) ==
    /\ Len(ApplyFix(code, diagnostic)) <= MaxCodeLen
    /\ code' = ApplyFix(code, diagnostic)
    /\ last' = [op |-> "handleApplyFix", diagnostic |-> diagnostic, before |-> Snapshot]
    /\ UNCHANGED <<language, diagnostics, isReviewing, theme, preferences,
                   mounted, markers, decorations, inflight, settled>>
    /\ UNCHANGED scanVars

\* setTheme(theme === 'dark' ? 'light' : 'dark')
handleThemeToggle ==
    /\ theme' = IF theme = "dark" THEN "light" ELSE "dark"
    /\ last' = NoCall
    /\ UNCHANGED <<code, language, diagnostics, isReviewing, preferences,
                   mounted, markers, decorations, inflight, settled>>
    /\ UNCHANGED scanVars

\* the language selector: onChange={(e) => setLanguage(e.target.value)}
setLanguage(value) ==
    /\ language' = value
    /\ last' = NoCall
    /\ UNCHANGED <<code, diagnostics, isReviewing, theme, preferences,
                   mounted, markers, decorations, inflight, settled>>
    /\ UNCHANGED scanVars

----------------------------------------------------------------------------
(* The sidebar: Sidebar *)

\* the boolean preferences, each with a checkbox of the settings panel
PreferenceKeys == {"enableSecurity", "enableLLM", "runOnSave"}

\* Array.prototype.includes
Includes(list, id) == \E i \in 1..Len(list) : list[i] = id

handleLanguageToggle_alwaysAppends(langId) ==
    /\ preferences' = [preferences EXCEPT
                           !.selectedLanguages = Append(@, langId)]
    /\ last' = [op |-> "handleLanguageToggle", langId |-> langId, before |-> Snapshot]
    /\ UNCHANGED <<code, language, diagnostics, isReviewing, theme,
                   mounted, markers, decorations, inflight, settled>>
    /\ UNCHANGED scanVars

\* handleLanguageToggle: the language is filtered out of selectedLanguages
\* when it is there, and put at its end when it is not
handleLanguageToggle(langId) ==
    /\ LET selected == preferences.selectedLanguages
           Other(id) == id # langId
           newLanguages == IF Includes(selected, langId)
                           THEN SelectSeq(selected, Other)
                           ELSE Append(selected, langId)
       IN  preferences' = [preferences EXCEPT !.selectedLanguages = newLanguages]
    /\ last' = [op |-> "handleLanguageToggle", langId |-> langId, before |-> Snapshot]
    /\ UNCHANGED <<code, language, diagnostics, isReviewing, theme,
                   mounted, markers, decorations, inflight, settled>>
    /\ UNCHANGED scanVars

\* onPreferencesChange({ ...preferences, [key]: !preferences[key] })
handleToggle(key) ==
    /\ preferences' = [preferences EXCEPT ![key] = ~preferences[key]]
    /\ last' = NoCall
    /\ UNCHANGED <<code, language, diagnostics, isReviewing, theme,
                   mounted, markers, decorations, inflight, settled>>
    /\ UNCHANGED scanVars

----------------------------------------------------------------------------
(* The results panel: ResultsPanel *)

SEVERITY_CONFIG ==
    [error |->
        [icon |-> "AlertCircle", bgColor |-> "bg-red-100",
         textColor |-> "text-red-800", badgeColor |-> "bg-red-500",
         borderColor |-> "border-red-300", label |-> "Error"],
     warning |->
        [icon |-> "AlertTriangle", bgColor |-> "bg-yellow-100",
         textColor |-> "text-yellow-800", badgeColor |-> "bg-yellow-500",
         borderColor |-> "border-yellow-300", label |-> "Warning"],
     suggestion |->
        [icon |-> "Lightbulb", bgColor |-> "bg-green-100",
         textColor |-> "text-green-800", badgeColor |-> "bg-green-500",
         borderColor |-> "border-green-300", label |-> "Suggestion"],
     info |->
        [icon |-> "Info", bgColor |-> "bg-blue-100",
         textColor |-> "text-blue-800", badgeColor |-> "bg-blue-500",
         borderColor |-> "border-blue-300", label |-> "Info"]]

getSeverityConfig_info(severity) == SEVERITY_CONFIG.info

\* SEVERITY_CONFIG[severity] || SEVERITY_CONFIG.info
getSeverityConfig(severity) ==
    IF severity \in DOMAIN SEVERITY_CONFIG
    THEN SEVERITY_CONFIG[severity]
    ELSE SEVERITY_CONFIG.info

\* groupedDiagnostics[severity]?.length || 0
RECURSIVE GroupLength(_, _)
GroupLength(diags, severity) ==
    IF diags = <<>> THEN 0
    ELSE (IF Head(diags).severity = severity THEN 1 ELSE 0)
         + GroupLength(Tail(diags), severity)

summary(diags) ==
    [error |-> GroupLength(diags, "error"),
     warning |-> GroupLength(diags, "warning"),
     suggestion |-> GroupLength(diags, "suggestion"),
     info |-> GroupLength(diags, "info")]

\* {diagnostic.fix && <button ...>Apply Fix</button>}
OffersApplyFix(diagnostic) == Truthy(diagnostic.fix)

\* one rendered entry of the results list
Card(diagnostic) ==
    [config |-> getSeverityConfig(diagnostic.severity),
     line |-> diagnostic.line,
     column |-> diagnostic.column,
     message |-> diagnostic.message,
     showsRule |-> diagnostic.ruleId # "",
     applyFix |-> OffersApplyFix(diagnostic)]

\* what the panel renders for the diagnostics it is given
ResultsPanel(diags) ==
    [summary |-> summary(diags),
     noIssues |-> Len(diags) = 0,
     cards |-> [i \in 1..Len(diags) |-> Card(diags[i])]]

----------------------------------------------------------------------------
(* The editor: CodeEditor *)

MarkerSeverity(severity) ==
    CASE severity = "error" -> "MarkerSeverity.Error"
      [] severity = "warning" -> "MarkerSeverity.Warning"
      [] severity = "suggestion" -> "MarkerSeverity.Info"
      [] severity = "info" -> "MarkerSeverity.Info"
      [] OTHER -> "MarkerSeverity.Info"

ColumnOr1_zero(diagnostic) ==
    IF Truthy(diagnostic.column) THEN diagnostic.column.v ELSE 0

\* diagnostic.column || 1
ColumnOr1(diagnostic) ==
    IF Truthy(diagnostic.column) THEN diagnostic.column.v ELSE 1

Marker(diagnostic) ==
    [severity |-> MarkerSeverity(diagnostic.severity),
     message |-> diagnostic.message,
     startLineNumber |-> diagnostic.line,
     startColumn |-> ColumnOr1(diagnostic),
     endLineNumber |-> diagnostic.line,
     endColumn |-> ColumnOr1(diagnostic) + 1,
     source |-> IF diagnostic.ruleId # "" THEN diagnostic.ruleId ELSE "code-review"]

Decoration(diagnostic) ==
    LET isError == diagnostic.severity = "error"
    IN  [range |-> <<diagnostic.line, ColumnOr1(diagnostic),
                     diagnostic.line, ColumnOr1(diagnostic) + 10>>,
         className |-> IF isError THEN "error-line-decoration"
                                  ELSE "suggestion-line-decoration",
         glyphMarginClassName |-> IF isError THEN "error-glyph" ELSE "suggestion-glyph",
         glyphMarginHoverMessage |-> diagnostic.message,
         fixAvailable |-> Truthy(diagnostic.fix),
         minimapColor |-> IF isError THEN "#ff0000" ELSE "#00ff00"]

\* the markers and decorations applyDiagnostics leaves: none are applied
\* before the editor has mounted
MarkersAfterApply(diags) ==
    IF mounted THEN [i \in 1..Len(diags) |-> Marker(diags[i])] ELSE markers

DecorationsAfterApply(diags) ==
    IF mounted THEN [i \in 1..Len(diags) |-> Decoration(diags[i])] ELSE decorations

MarkersAfterClear_kept == markers

\* clearDiagnostics
MarkersAfterClear == IF mounted THEN <<>> ELSE markers

DecorationsAfterClear == IF mounted THEN <<>> ELSE decorations

\* handleEditorDidMount
EditorDidMount ==
    /\ ~mounted
    /\ mounted' = TRUE
    /\ last' = NoCall
    /\ UNCHANGED <<code, language, diagnostics, isReviewing, theme, preferences,
                   markers, decorations, inflight, settled>>
    /\ UNCHANGED scanVars

\* the user saves in the editor (Ctrl+S): the Editor element is given onChange
\* and onMount only, no save command and no key handler, and nothing reads
\* preferences.runOnSave; the save changes no state of the client
EditorSave ==
    /\ last' = [op |-> "save", before |-> Snapshot]
    /\ UNCHANGED <<code, language, diagnostics, isReviewing, theme, preferences,
                   mounted, markers, decorations, inflight, settled>>
    /\ UNCHANGED scanVars

handleEditorChange_cancels(value) ==
    /\ code' = value
    /\ isReviewing' = FALSE
    /\ last' = NoCall
    /\ UNCHANGED <<language, diagnostics, theme, preferences,
                   mounted, markers, decorations, inflight, settled>>
    /\ UNCHANGED scanVars

\* onChange={(value) => setCode(value || '')}
handleEditorChange(value) ==
    /\ code' = value
    /\ last' = NoCall
    /\ UNCHANGED <<language, diagnostics, isReviewing, theme, preferences,
                   mounted, markers, decorations, inflight, settled>>
    /\ UNCHANGED scanVars

----------------------------------------------------------------------------
(* The review: handleRunReview *)

ReviewRequest ==
    [filePath |-> IF language = "javascript" THEN "untitled.js"
                  ELSE IF language = "python" THEN "untitled.py"
                  ELSE "untitled.txt",
     language |-> language,
     code |-> code,
     preferences |-> preferences]

connectionError_otherRule ==
    Diagnostic("error", "Failed to connect to backend", 1, Num(1),
               "http-error", Undefined)

connectionError_line0 ==
    Diagnostic("error", "Failed to connect to backend", 0, Num(1),
               "connection-error", Undefined)

\* the diagnostic the catch block puts in place of a review's result
connectionError ==
    Diagnostic("error", "Failed to connect to backend", 1, Num(1),
               "connection-error", Undefined)

DiagnosticsAtStart_kept == diagnostics

\* setDiagnostics([]) at the start of a review
DiagnosticsAtStart == <<>>

RECURSIVE Dedup(_)
Dedup(s) ==
    IF s = <<>> THEN <<>>
    ELSE LET rest == Dedup(SubSeq(s, 1, Len(s) - 1))
         IN  IF \E i \in 1..(Len(s) - 1) : s[i] = s[Len(s)]
             THEN rest
             ELSE Append(rest, s[Len(s)])

ResponseDiagnostics_dedup(data) ==
    IF Truthy(data.diagnostics) THEN Dedup(data.diagnostics.v) ELSE <<>>

\* data.diagnostics || []
ResponseDiagnostics(data) ==
    IF Truthy(data.diagnostics) THEN data.diagnostics.v ELSE <<>>

\* handleRunReview up to its await: the state is reset and the request sent
handleRunReview ==
    /\ isReviewing' = TRUE
    /\ diagnostics' = DiagnosticsAtStart
    /\ markers' = MarkersAfterClear
    /\ decorations' = DecorationsAfterClear
    /\ inflight' = Append(inflight, ReviewRequest)
    /\ settled' = NoReview
    /\ last' = NoCall
    /\ UNCHANGED <<code, language, theme, preferences, mounted>>
    /\ UNCHANGED scanVars

RunReviewButton_alwaysEnabled == handleRunReview

\* the Run Review button: disabled={isReviewing}
RunReviewButton ==
    /\ ~isReviewing
    /\ handleRunReview

Without(s, i) == SubSeq(s, 1, i - 1) \o SubSeq(s, i + 1, Len(s))

\* the catch and finally blocks
ReviewFailed(i, cause) ==
    /\ i \in 1..Len(inflight)
    /\ diagnostics' = <<connectionError>>
    /\ isReviewing' = FALSE
    /\ inflight' = Without(inflight, i)
    /\ settled' = [outcome |-> "failed", cause |-> cause, request |-> inflight[i]]
    /\ last' = NoCall
    /\ UNCHANGED <<code, language, theme, preferences, mounted, markers, decorations>>
    /\ UNCHANGED scanVars

\* fetch rejects: the backend cannot be reached
FetchRejected(i) == ReviewFailed(i, "fetch rejected")

\* if (!response.ok) throw
ResponseNotOk(i) == ReviewFailed(i, "status not ok")

\* response.json() rejects: the body is no JSON
JsonRejected(i) == ReviewFailed(i, "body not json")

\* the try block after the awaits, and the finally block: setDiagnostics,
\* applyDiagnostics and setIsReviewing(false) run without an await between
\* them and are committed as one update
ResponseOk(i, data) ==
    /\ i \in 1..Len(inflight)
    /\ diagnostics' = ResponseDiagnostics(data)
    /\ IF Truthy(data.diagnostics)
       THEN /\ markers' = MarkersAfterApply(data.diagnostics.v)
            /\ decorations' = DecorationsAfterApply(data.diagnostics.v)
       ELSE UNCHANGED <<markers, decorations>>
    /\ isReviewing' = FALSE
    /\ inflight' = Without(inflight, i)
    /\ settled' = [outcome |-> "ok", data |-> data, request |-> inflight[i]]
    /\ last' = NoCall
    /\ UNCHANGED <<code, language, theme, preferences, mounted>>
    /\ UNCHANGED scanVars

\* the Apply Fix button of the i-th entry of the results panel
ApplyFixButton(i) ==
    /\ i \in 1..Len(diagnostics)
    /\ ResultsPanel(diagnostics).cards[i].applyFix
    /\ handleApplyFix(diagnostics[i])

\* the diagnostics a backend answers with: one of each severity and one of a
\* severity the client does not know, on lines that the submitted text may or
\* may not have, with and without a column, a rule and a fix
ResponsePool ==
    {Diagnostic("error", "m1", 1, Num(1), "E501", Null),
     Diagnostic("warning", "m2", 2, Undefined, "", Undefined),
     Diagnostic("suggestion", "m3", 2, Num(1), "F521", Str(<<"b">>)),
     Diagnostic("info", "m4", 3, Num(2), "I100", Str(<<>>)),
     Diagnostic("critical", "m5", 1, Null, "X900", Undefined)}

\* a response of one diagnostic that has a fix
FixableResponse ==
    [diagnostics |->
        Arr(<<Diagnostic("suggestion", "m3", 2, Num(1), "F521", Str(<<"b">>))>>)]

\* the bodies a backend answers with: a diagnostics array, or none
Responses ==
    {[diagnostics |-> Undefined], [diagnostics |-> Null]}
    \cup {[diagnostics |-> Arr(s)] : s \in SeqsUpTo(ResponsePool, MaxDiags)}

----------------------------------------------------------------------------
(* The scanner scripts: run_semgrep.sh, run_bandit.sh *)

Scripts == {"run_semgrep.sh", "run_bandit.sh"}

\* OUTPUT="${2:-semgrep_results.json}", OUTPUT="${2:-bandit_results.json}"
DefaultOutput(s) ==
    IF s = "run_semgrep.sh" THEN "semgrep_results.json" ELSE "bandit_results.json"

\* the exit statuses of a scanner: 0, 1 (findings, or a failed scan), 2 (a crash)
ExitCodes == {0, 1, 2}

NotStarted ==
    [pc |-> "idle", target |-> "", output |-> "", scanner |-> "none",
     stdout |-> <<>>, status |-> 0, written |-> FALSE]

ScriptInit == script = [s \in Scripts |-> NotStarted]

\* the script is started with $1 (empty when absent) and $2
Invoke(s, target, out) ==
    /\ script[s].pc \in {"idle", "exited"}
    /\ script' = [script EXCEPT ![s] =
                     [NotStarted EXCEPT !.pc = "check", !.target = target, !.output = out]]
    /\ UNCHANGED dispatch
    /\ UNCHANGED clientVars

\* if [ -z "$1" ]: the usage message and exit 1; else the scanner is started,
\* and it is one that exits or one that hangs
CheckArgs(s, hangs) ==
    /\ script[s].pc = "check"
    /\ IF script[s].target = ""
       THEN /\ ~hangs
            /\ script' = [script EXCEPT ![s].pc = "exited", ![s].status = 1,
                                        ![s].stdout = <<"Usage">>]
       ELSE script' = [script EXCEPT
                          ![s].pc = "scanning",
                          ![s].output = IF script[s].output = "" THEN DefaultOutput(s)
                                        ELSE script[s].output,
                          ![s].scanner = IF hangs THEN "hangs" ELSE "runs"]
    /\ UNCHANGED dispatch
    /\ UNCHANGED clientVars

\* the scanner exits: under set -e a status other than 0 ends the script with
\* that status, before its last echo
ScannerExits(s, rc) ==
    /\ script[s].pc = "scanning"
    /\ script[s].scanner = "runs"
    /\ script' = [script EXCEPT
                     ![s].pc = IF rc = 0 THEN "echo" ELSE "exited",
                     ![s].status = rc,
                     ![s].scanner = "exited",
                     ![s].written = (rc \in {0, 1})]
    /\ UNCHANGED dispatch
    /\ UNCHANGED clientVars

\* echo "... scan complete. Results saved to $OUTPUT"
Echo(s) ==
    /\ script[s].pc = "echo"
    /\ script' = [script EXCEPT ![s].pc = "exited", ![s].status = 0,
                                ![s].stdout = <<"scan complete", script[s].output>>]
    /\ UNCHANGED dispatch
    /\ UNCHANGED clientVars

\* a step of a started script
ScriptStep(s) ==
    \/ \E hangs \in BOOLEAN : CheckArgs(s, hangs)
    \/ \E rc \in ExitCodes : ScannerExits(s, rc)
    \/ Echo(s)

----------------------------------------------------------------------------
(* The dispatcher: POST /api/review *)

\* most findings one tool reports
MaxFindings == 1

Tools == {"flake8", "bandit", "eslint", "semgrep", "npm-audit", "safety"}

LANGUAGES == <<"javascript", "typescript", "python", "java", "go">>

\* the adapters a request selects, in the order they are run
AdaptersFor(request) ==
    LET lang == request.language
        sec == request.preferences.enableSecurity
        on == \E i \in 1..Len(request.preferences.selectedLanguages) :
                  request.preferences.selectedLanguages[i] = lang
    IN  IF ~on THEN <<>>
        ELSE IF lang = "python"
             THEN <<"flake8">> \o (IF sec THEN <<"bandit", "semgrep", "safety">> ELSE <<>>)
        ELSE IF lang = "javascript"
             THEN <<"eslint">> \o (IF sec THEN <<"semgrep", "npm-audit">> ELSE <<>>)
        ELSE IF sec THEN <<"semgrep">> ELSE <<>>

\* what a tool can report
ToolPool(tool) ==
    {Diagnostic("error", <<tool, "finding">>, 1, Num(1), tool, Undefined),
     Diagnostic("warning", <<tool, "finding">>, 2, Undefined, tool, Undefined)}

ToolFindings(tool) == SeqsUpTo(ToolPool(tool), MaxFindings)

\* the diagnostic that stands for a failed or timed-out adapter
Synthetic(tool, why) ==
    Diagnostic("error", <<tool, why>>, 1, Num(1), "adapter-failure", Undefined)

Contribution_dropped(outcome) ==
    IF outcome.result = "ok" THEN outcome.findings ELSE <<>>

\* what an adapter adds to the response
Contribution(outcome) ==
    IF outcome.result = "ok" THEN outcome.findings
    ELSE <<Synthetic(outcome.tool, outcome.result)>>

DispatchIdle ==
    [phase |-> "idle", request |-> [language |-> "", preferences |-> <<>>],
     todo |-> <<>>, outcomes |-> <<>>, response |-> <<>>]

DispatchInit == dispatch = DispatchIdle

\* the requests a client can send: any language of the selector, the security
\* scan on or off
DispatchRequests ==
    {[language |-> LANGUAGES[i],
      preferences |-> [selectedLanguages |-> sel, enableSecurity |-> sec]] :
        i \in 1..Len(LANGUAGES), sec \in BOOLEAN,
        sel \in {<<"javascript", "python">>, <<"python", "go">>}}

DispatchReceive(request) ==
    /\ dispatch.phase \in {"idle", "returned"}
    /\ dispatch' = [DispatchIdle EXCEPT !.phase = "running", !.request = request,
                                        !.todo = AdaptersFor(request)]
    /\ UNCHANGED script
    /\ UNCHANGED clientVars

\* the next adapter ends with `result`: "ok" with the tool's findings, "failed"
\* (a status other than 0, output that does not parse) or "timed out" (the
\* subprocess is killed)
AdapterEnds(result, findings) ==
    /\ dispatch.phase = "running"
    /\ dispatch.todo # <<>>
    /\ findings \in ToolFindings(Head(dispatch.todo))
    /\ result = "ok" \/ findings = <<>>
    /\ LET outcome == [tool |-> Head(dispatch.todo), result |-> result,
                       findings |-> findings]
       IN  dispatch' = [dispatch EXCEPT
                           !.todo = Tail(dispatch.todo),
                           !.outcomes = Append(dispatch.outcomes, outcome),
                           !.response = dispatch.response \o Contribution(outcome)]
    /\ UNCHANGED script
    /\ UNCHANGED clientVars

AdapterReturns(findings) == AdapterEnds("ok", findings)

AdapterFails == AdapterEnds("failed", <<>>)

AdapterTimesOut == AdapterEnds("timed out", <<>>)

\* every adapter has ended: the combined list is returned
DispatchRespond ==
    /\ dispatch.phase = "running"
    /\ dispatch.todo = <<>>
    /\ dispatch' = [dispatch EXCEPT !.phase = "returned"]
    /\ UNCHANGED script
    /\ UNCHANGED clientVars

----------------------------------------------------------------------------
(* Specifications *)

ScanInit == ScriptInit /\ DispatchInit

Init == ClientInit /\ ScanInit

\* the client: the editor, the review and the results panel
Next ==
    \/ EditorDidMount
    \/ \E value \in TypedTexts : handleEditorChange(value)
    \/ RunReviewButton
    \/ \E i \in 1..Len(inflight) : FetchRejected(i)
    \/ \E i \in 1..Len(inflight) : ResponseNotOk(i)
    \/ \E i \in 1..Len(inflight) : JsonRejected(i)
    \/ \E i \in 1..Len(inflight), data \in Responses : ResponseOk(i, data)
    \/ \E i \in 1..Len(diagnostics) : ApplyFixButton(i)

Spec == Init /\ [][Next]_vars

\* the fix applier on every text and every diagnostic: the editor holds any
\* typed text and the panel any one diagnostic, as after a review that
\* answered with it
FixInit ==
    /\ code \in TypedTexts
    /\ language = "python"
    /\ diagnostics \in {<<d>> : d \in FixInputs}
    /\ isReviewing = FALSE
    /\ theme = "light"
    /\ preferences = [selectedLanguages |-> <<"javascript", "python">>,
                      enableSecurity |-> TRUE, enableLLM |-> FALSE,
                      runOnSave |-> FALSE]
    /\ mounted = TRUE
    /\ markers = MarkersAfterApply(diagnostics)
    /\ decorations = DecorationsAfterApply(diagnostics)
    /\ inflight = <<>>
    /\ settled = NoReview
    /\ last = NoCall
    /\ ScanInit

\* onApplyFix called with a diagnostic of the panel, through its button or not
ApplyFixCall(i) ==
    /\ i \in 1..Len(diagnostics)
    /\ handleApplyFix(diagnostics[i])

FixNext ==
    \/ handleThemeToggle
    \/ \E i \in 1..Len(diagnostics) : ApplyFixCall(i)
    \/ \E i \in 1..Len(diagnostics) : ApplyFixButton(i)

FixSpec == FixInit /\ [][FixNext]_vars

\* two fixes applied one after the other, in any order and any number of
\* times: the editor holds any typed text and the panel any two diagnostics
\* that have a fix
TwoFixInit ==
    /\ code \in TypedTexts
    /\ language = "python"
    /\ diagnostics \in {<<d1, d2>> : d1 \in TwoFixInputs, d2 \in TwoFixInputs}
    /\ isReviewing = FALSE
    /\ theme = "light"
    /\ preferences = [selectedLanguages |-> <<"javascript", "python">>,
                      enableSecurity |-> TRUE, enableLLM |-> FALSE,
                      runOnSave |-> FALSE]
    /\ mounted = TRUE
    /\ markers = MarkersAfterApply(diagnostics)
    /\ decorations = DecorationsAfterApply(diagnostics)
    /\ inflight = <<>>
    /\ settled = NoReview
    /\ last = NoCall
    /\ ScanInit

TwoFixNext == \E i \in 1..Len(diagnostics) : ApplyFixButton(i)

TwoFixSpec == TwoFixInit /\ [][TwoFixNext]_vars

\* the client's settings around a review: the language selector, the
\* preference checkboxes, the theme, a save in the editor; the text is the
\* example program or empty, the language one of each kind of file name
SettingsNext ==
    \/ EditorDidMount
    \/ \E value \in {<<>>, DEFAULT_CODE} : handleEditorChange(value)
    \/ \E value \in {"javascript", "go"} : setLanguage(value)
    \/ \E key \in PreferenceKeys : handleToggle(key)
    \/ handleThemeToggle
    \/ EditorSave
    \/ RunReviewButton
    \/ \E i \in 1..Len(inflight) : FetchRejected(i)
    \/ \E i \in 1..Len(inflight) : ResponseOk(i, FixableResponse)
    \/ \E i \in 1..Len(diagnostics) : ApplyFixButton(i)

SettingsSpec == Init /\ [][SettingsNext]_vars

\* the settings panel of the sidebar: the checkbox of every language and of
\* every feature
PreferencesNext ==
    \/ \E i \in 1..Len(LANGUAGES) : handleLanguageToggle(LANGUAGES[i])
    \/ \E key \in PreferenceKeys : handleToggle(key)

PreferencesSpec == Init /\ [][PreferencesNext]_vars

\* the scanner scripts, run from the command line
ScriptNext ==
    \/ \E s \in Scripts, target \in {"", "app.py"}, out \in {"", "out.json"} :
          Invoke(s, target, out)
    \/ \E s \in Scripts : ScriptStep(s)

ScriptSpec == Init /\ [][ScriptNext]_vars

\* the dispatcher, one request after the other
DispatchNext ==
    \/ \E request \in DispatchRequests : DispatchReceive(request)
    \/ \E tool \in Tools : \E findings \in ToolFindings(tool) : AdapterReturns(findings)
    \/ AdapterFails
    \/ AdapterTimesOut
    \/ DispatchRespond

DispatchSpec == Init /\ [][DispatchNext]_vars

----------------------------------------------------------------------------
(* Claims: the fix applier (FixSpec) *)

\* C1 as stated: after handleApplyFix with a non-empty fix and a line L of the
\* text, line L of the new text is the fix and every other line is the line
\* that was at the same index before.
C1_AnyFixReplacesLine ==
    (/\ last.op = "handleApplyFix"
     /\ last.diagnostic.fix.t = "string"
     /\ last.diagnostic.fix.v # <<>>
     /\ last.diagnostic.line >= 1
     /\ last.diagnostic.line <= Len(Split(last.before.code)))
    => LET old == Split(last.before.code)
           new == Split(code)
           L == last.diagnostic.line
       IN  /\ Len(new) = Len(old)
           /\ new[L] = last.diagnostic.fix.v
           /\ \A i \in 1..Len(old) : i # L => new[i] = old[i]

\* C1 amended: the same, for a non-empty fix that holds no line break.
C1_OneLineFixReplacesLine ==
    (/\ last.op = "handleApplyFix"
     /\ last.diagnostic.fix.t = "string"
     /\ last.diagnostic.fix.v # <<>>
     /\ \A k \in 1..Len(last.diagnostic.fix.v) : last.diagnostic.fix.v[k] # NL
     /\ last.diagnostic.line >= 1
     /\ last.diagnostic.line <= Len(Split(last.before.code)))
    => LET old == Split(last.before.code)
           new == Split(code)
           L == last.diagnostic.line
       IN  /\ Len(new) = Len(old)
           /\ new[L] = last.diagnostic.fix.v
           /\ \A i \in 1..Len(old) : i # L => new[i] = old[i]

\* C1's case: the middle line of a three-line text was replaced by the fix
C1_Witness ==
    /\ last.op = "handleApplyFix"
    /\ last.diagnostic.fix = Str(<<"b">>)
    /\ last.diagnostic.line = 2
    /\ Len(Split(last.before.code)) = 3
    /\ code # last.before.code

\* C2: handleApplyFix with a diagnostic whose fix is absent, null or the empty
\* string leaves the text, the diagnostics, isReviewing, the language, the
\* preferences, the theme and the editor as they were; and the results panel
\* shows the Apply Fix button exactly for the diagnostics whose fix is a
\* non-empty string.
C2_NoFixIsNoOp ==
    /\ (/\ last.op = "handleApplyFix"
        /\ \/ last.diagnostic.fix.t \in {"undefined", "null"}
           \/ last.diagnostic.fix = Str(<<>>))
       => /\ code = last.before.code
          /\ diagnostics = last.before.diagnostics
          /\ isReviewing = last.before.isReviewing
          /\ language = last.before.language
          /\ preferences = last.before.preferences
          /\ theme = last.before.theme
          /\ markers = last.before.markers
          /\ decorations = last.before.decorations
          /\ inflight = last.before.inflight
    /\ \A i \in 1..Len(diagnostics) :
          ResultsPanel(diagnostics).cards[i].applyFix
          <=> (diagnostics[i].fix.t = "string" /\ diagnostics[i].fix.v # <<>>)

\* C2's case: the handler was called with an empty fix for a line the text
\* has, and that line is not empty
C2_Witness ==
    /\ last.op = "handleApplyFix"
    /\ last.diagnostic.fix = Str(<<>>)
    /\ last.diagnostic.line = 1
    /\ Split(last.before.code)[1] # <<>>
    /\ ~ResultsPanel(diagnostics).cards[1].applyFix

\* C3 as stated: whatever the diagnostic and the text, the text has as many
\* lines after handleApplyFix as before.
C3_LineCountKept ==
    last.op = "handleApplyFix"
    => Len(Split(code)) = Len(Split(last.before.code))

\* C3 amended: for a diagnostic whose fix holds no line break (or that has no
\* fix), the text has as many lines after handleApplyFix as before.
C3_LineCountKeptByOneLineFix ==
    (/\ last.op = "handleApplyFix"
     /\ last.diagnostic.fix.t = "string"
        => \A k \in 1..Len(last.diagnostic.fix.v) : last.diagnostic.fix.v[k] # NL)
    => Len(Split(code)) = Len(Split(last.before.code))

\* C3's case: a one-line fix has changed the first of two lines
C3_Witness ==
    /\ last.op = "handleApplyFix"
    /\ last.diagnostic.fix = Str(<<"b">>)
    /\ last.diagnostic.line = 1
    /\ Len(Split(last.before.code)) = 2
    /\ code # last.before.code

\* C18: handleApplyFix with a non-empty fix and a line the text does not have
\* (0 or less, or more than its number of lines) leaves the text, and all
\* else, as it was; and the call ends normally: for a listed diagnostic with
\* such a line the handler can always be run.
C18_OutOfRangeLineIsNoOp ==
    /\ (/\ last.op = "handleApplyFix"
        /\ last.diagnostic.fix.t = "string"
        /\ last.diagnostic.fix.v # <<>>
        /\ \/ last.diagnostic.line <= 0
           \/ last.diagnostic.line > Len(Split(last.before.code)))
       => /\ code = last.before.code
          /\ diagnostics = last.before.diagnostics
          /\ isReviewing = last.before.isReviewing
          /\ markers = last.before.markers
    /\ \A i \in 1..Len(diagnostics) :
          (diagnostics[i].line <= 0 \/ diagnostics[i].line > Len(Split(code)))
          => ENABLED ApplyFixCall(i)

\* C18's case: the handler was called with the fix "b" for the line after the
\* last line of a text of two lines, and the text is as before
C18_Witness ==
    /\ last.op = "handleApplyFix"
    /\ last.diagnostic.fix = Str(<<"b">>)
    /\ Len(Split(last.before.code)) = 2
    /\ last.diagnostic.line = 3
    /\ code = last.before.code

----------------------------------------------------------------------------
(* Claims: two fixes in a row (TwoFixSpec) *)

\* a fix that can be applied to a text: not empty, for a line the text has
ValidFix(diagnostic, text) ==
    /\ diagnostic.fix.t = "string"
    /\ diagnostic.fix.v # <<>>
    /\ diagnostic.line >= 1
    /\ diagnostic.line <= Len(Split(text))

\* a fix of one line: it holds no line break
SingleLine(diagnostic) ==
    \A k \in 1..Len(diagnostic.fix.v) : diagnostic.fix.v[k] # NL

\* the second of two calls of handleApplyFix in a row, on distinct lines or on
\* the same line, with fixes of one line each that were both valid for the
\* text before the first call: the text is the one before the first call with
\* each fix on its line (the same whichever call came first), and on a shared
\* line the fix of the second call
TwoSingleLineFixes ==
    (/\ last.op = "handleApplyFix"
     /\ last'.op = "handleApplyFix"
     /\ ValidFix(last.diagnostic, last.before.code)
     /\ ValidFix(last'.diagnostic, last.before.code)
     /\ SingleLine(last.diagnostic)
     /\ SingleLine(last'.diagnostic))
    => Split(code') = [Split(last.before.code) EXCEPT
                          ![last.diagnostic.line] = last.diagnostic.fix.v,
                          ![last'.diagnostic.line] = last'.diagnostic.fix.v]

\* C20 as stated: a call of handleApplyFix right after a call with the same
\* valid fix leaves the text as the first call left it; two calls in a row
\* with valid single-line fixes for distinct lines give the same text in
\* either order; on the same line the fix of the later call stands.
C20_AnyFixIdempotent ==
    [][/\ (/\ last.op = "handleApplyFix"
           /\ last'.op = "handleApplyFix"
           /\ last'.diagnostic = last.diagnostic
           /\ ValidFix(last.diagnostic, last.before.code))
          => code' = code
       /\ TwoSingleLineFixes]_vars

\* C20 amended: the same, with idempotence for a valid fix that holds no line
\* break.
C20_SingleLineFixIdempotent ==
    [][/\ (/\ last.op = "handleApplyFix"
           /\ last'.op = "handleApplyFix"
           /\ last'.diagnostic = last.diagnostic
           /\ ValidFix(last.diagnostic, last.before.code)
           /\ SingleLine(last.diagnostic))
          => code' = code
       /\ TwoSingleLineFixes]_vars

\* C20's case: after a fix "b" on line 1, a fix "b" on line 2 has been applied
\* to a text of two lines that held no "b" at first (only a fix writes "b")
C20_Witness ==
    /\ last.op = "handleApplyFix"
    /\ last.diagnostic.line = 2
    /\ last.diagnostic.fix = Str(<<"b">>)
    /\ diagnostics[1].line = 1
    /\ diagnostics[1].fix = Str(<<"b">>)
    /\ Len(Split(last.before.code)) = 2
    /\ Split(last.before.code)[1] = <<"b">>
    /\ Split(last.before.code)[2] # <<"b">>
    /\ Split(code) = <<(<<"b">>), (<<"b">>)>>

----------------------------------------------------------------------------
(* Claims: the review (Spec) *)

\* C4: when the review request fails (fetch rejects, the status is not ok),
\* the diagnostics list is, once handleRunReview has finished, exactly one
\* entry: severity error, line 1, column 1, ruleId connection-error.
C4_FailureShowsConnectionError ==
    settled.outcome = "failed"
    => /\ ~isReviewing
       /\ Len(diagnostics) = 1
       /\ diagnostics[1].severity = "error"
       /\ diagnostics[1].line = 1
       /\ diagnostics[1].column = Num(1)
       /\ diagnostics[1].ruleId = "connection-error"

\* C4's case: a review failed on a status that is not ok, after an earlier
\* review whose fix was applied (only a fix writes "b" into the text)
C4_Witness ==
    /\ settled.outcome = "failed"
    /\ settled.cause = "status not ok"
    /\ \E k \in 1..Len(code) : code[k] = "b"

\* C7: after a successful review the diagnostics list, and the entries the
\* panel renders, are the response's diagnostics: as many, in the same order,
\* duplicates kept; a response with no diagnostics gives the empty list.
C7_ListIsResponse ==
    settled.outcome = "ok"
    => LET response == IF settled.data.diagnostics.t = "array"
                       THEN settled.data.diagnostics.v ELSE <<>>
           cards == ResultsPanel(diagnostics).cards
       IN  /\ diagnostics = response
           /\ Len(cards) = Len(response)
           /\ \A i \in 1..Len(response) :
                 /\ cards[i].message = response[i].message
                 /\ cards[i].line = response[i].line

\* C7's case: the response held the same diagnostic twice, and both are
\* listed and rendered
C7_Witness ==
    /\ settled.outcome = "ok"
    /\ Len(diagnostics) = 2
    /\ diagnostics[1] = diagnostics[2]
    /\ Len(ResultsPanel(diagnostics).cards) = 2

\* C8: while a review is running (from the moment its request is sent) the
\* diagnostics list, the markers and the decorations are empty; once it has
\* ended, every diagnostic shown and every marker comes from its outcome: the
\* response, or the connection error; before any review nothing is shown.
C8_NoDiagnosticOutlivesItsReview ==
    /\ inflight # <<>> => isReviewing
    /\ isReviewing => diagnostics = <<>> /\ markers = <<>> /\ decorations = <<>>
    /\ (~isReviewing /\ settled.outcome = "none") => diagnostics = <<>>
    /\ (~isReviewing /\ settled.outcome = "failed")
       => /\ \A i \in 1..Len(diagnostics) : diagnostics[i].ruleId = "connection-error"
          /\ markers = <<>>
    /\ (~isReviewing /\ settled.outcome = "ok")
       => LET response == IF settled.data.diagnostics.t = "array"
                          THEN settled.data.diagnostics.v ELSE <<>>
          IN  /\ \A i \in 1..Len(diagnostics) :
                    \E j \in 1..Len(response) : diagnostics[i] = response[j]
              /\ \A i \in 1..Len(markers) :
                    \E j \in 1..Len(response) : markers[i].message = response[j].message

\* C8's case: a review is running in a mounted editor, after an earlier review
\* whose fix was applied (only a fix writes "b" into the text)
C8_Witness ==
    /\ isReviewing
    /\ inflight # <<>>
    /\ mounted
    /\ \E k \in 1..Len(code) : code[k] = "b"

\* C9 as stated: every diagnostic of the list has its line between 1 and the
\* number of lines of the text submitted for that review.
C9_LinesWithinSubmittedText ==
    settled.outcome # "none"
    => \A i \in 1..Len(diagnostics) :
          /\ diagnostics[i].line >= 1
          /\ diagnostics[i].line <= Len(Split(settled.request.code))

\* C9 amended: the client takes the lines as the response gives them: every
\* diagnostic of the list has its line between 1 and the number of lines of
\* the submitted text if every diagnostic of the response has; the
\* connection-error diagnostic of a failed review always has.
C9_LinesWithinIfResponseWithin ==
    LET lineCount == Len(Split(settled.request.code))
        response == IF settled.data.diagnostics.t = "array"
                    THEN settled.data.diagnostics.v ELSE <<>>
    IN  /\ settled.outcome = "failed"
           => \A i \in 1..Len(diagnostics) :
                 diagnostics[i].line >= 1 /\ diagnostics[i].line <= lineCount
        /\ (/\ settled.outcome = "ok"
            /\ \A j \in 1..Len(response) :
                  response[j].line >= 1 /\ response[j].line <= lineCount)
           => \A i \in 1..Len(diagnostics) :
                 diagnostics[i].line >= 1 /\ diagnostics[i].line <= lineCount

\* C9's case: a response of two diagnostics, the second on the last line of
\* the submitted text
C9_Witness ==
    /\ settled.outcome = "ok"
    /\ Len(diagnostics) = 2
    /\ diagnostics[1].line = 1
    /\ diagnostics[2].line = 2
    /\ Len(Split(settled.request.code)) = 2

\* C10: two diagnostics whose severities differ (among error, warning,
\* suggestion, info) never get the same presentation: not the same colours or
\* icon in the results panel, and, once applied to the editor, not the same
\* marker severity nor the same decoration colour.
C10_SeverityToPresentationOneToOne ==
    \A i, j \in 1..Len(diagnostics) :
        (/\ diagnostics[i].severity \in Severities
         /\ diagnostics[j].severity \in Severities
         /\ diagnostics[i].severity # diagnostics[j].severity)
        => /\ ResultsPanel(diagnostics).cards[i].config.badgeColor
                = CASE diagnostics[i].severity = "error" -> "bg-red-500"
                    [] diagnostics[i].severity = "warning" -> "bg-yellow-500"
                    [] diagnostics[i].severity = "suggestion" -> "bg-green-500"
                    [] diagnostics[i].severity = "info" -> "bg-blue-500"
           /\ ResultsPanel(diagnostics).cards[i].config.badgeColor
                # ResultsPanel(diagnostics).cards[j].config.badgeColor
           /\ ResultsPanel(diagnostics).cards[i].config.icon
                # ResultsPanel(diagnostics).cards[j].config.icon
           /\ Len(markers) = Len(diagnostics)
              => /\ markers[i].severity # markers[j].severity
                 /\ decorations[i].className # decorations[j].className
                 /\ decorations[i].minimapColor # decorations[j].minimapColor

----------------------------------------------------------------------------
(* Claims: the editor and the results panel (Spec) *)

\* C11: once a response's diagnostics are applied to the editor, a diagnostic
\* without a column (absent or null) has a marker from column 1 to column 2 and
\* a decoration whose range starts at column 1; a diagnostic with a column
\* c >= 1 has a marker from column c to column c + 1 on the diagnostic's line.
C11_NoColumnIsColumn1 ==
    (settled.outcome = "ok" /\ markers # <<>>)
    => LET response == settled.data.diagnostics.v
       IN  /\ Len(markers) = Len(response)
           /\ Len(decorations) = Len(response)
           /\ \A i \in 1..Len(response) :
                 /\ response[i].column.t \in {"undefined", "null"}
                    => /\ markers[i].startColumn = 1
                       /\ markers[i].endColumn = 2
                       /\ decorations[i].range[2] = 1
                 /\ (response[i].column.t = "number" /\ response[i].column.v >= 1)
                    => /\ markers[i].startColumn = response[i].column.v
                       /\ markers[i].endColumn = response[i].column.v + 1
                       /\ markers[i].startLineNumber = response[i].line
                       /\ markers[i].endLineNumber = response[i].line

\* C11's case: the editor shows the markers of a response whose first
\* diagnostic has no column and whose second is at column 2
C11_Witness ==
    /\ settled.outcome = "ok"
    /\ Len(markers) = 2
    /\ settled.data.diagnostics.v[1].column = Undefined
    /\ settled.data.diagnostics.v[2].column = Num(2)
    /\ markers[2].startColumn = 2

\* C12: the results panel shows the 'No issues found' message exactly when
\* the diagnostics list is empty; when it is not, the panel renders one entry
\* per diagnostic, in order, with the diagnostic's message and the label of
\* its severity: Error, Warning, Suggestion, Info.
C12_NoIssuesIffEmpty ==
    LET panel == ResultsPanel(diagnostics)
    IN  /\ panel.noIssues <=> diagnostics = <<>>
        /\ diagnostics # <<>>
           => /\ Len(panel.cards) = Len(diagnostics)
              /\ \A i \in 1..Len(diagnostics) :
                    /\ panel.cards[i].message = diagnostics[i].message
                    /\ diagnostics[i].severity = "error"
                       => panel.cards[i].config.label = "Error"
                    /\ diagnostics[i].severity = "warning"
                       => panel.cards[i].config.label = "Warning"
                    /\ diagnostics[i].severity = "suggestion"
                       => panel.cards[i].config.label = "Suggestion"
                    /\ diagnostics[i].severity = "info"
                       => panel.cards[i].config.label = "Info"

\* C12's case: the panel lists an error and then a suggestion, and does not
\* show the 'No issues found' message
C12_Witness ==
    /\ Len(diagnostics) = 2
    /\ diagnostics[1].severity = "error"
    /\ diagnostics[2].severity = "suggestion"
    /\ ~ResultsPanel(diagnostics).noIssues
    /\ ResultsPanel(diagnostics).cards[2].config.label = "Suggestion"

\* C15: handleApplyFix leaves the diagnostics list, the editor's markers and
\* decorations and isReviewing as they were and sends no request: after it the
\* diagnostic whose fix was applied is still in the list.
C15_FixLeavesReviewResultAlone ==
    last.op = "handleApplyFix"
    => /\ diagnostics = last.before.diagnostics
       /\ markers = last.before.markers
       /\ decorations = last.before.decorations
       /\ isReviewing = last.before.isReviewing
       /\ inflight = last.before.inflight
       /\ \E i \in 1..Len(diagnostics) : diagnostics[i] = last.diagnostic

\* C15's case: a fix has changed the text of a mounted editor that shows the
\* markers of the review, and its diagnostic is listed with its Apply Fix
\* button as before
C15_Witness ==
    /\ last.op = "handleApplyFix"
    /\ code # last.before.code
    /\ markers # <<>>
    /\ \E i \in 1..Len(diagnostics) :
          /\ diagnostics[i] = last.diagnostic
          /\ ResultsPanel(diagnostics).cards[i].applyFix
          /\ markers[i].message = last.diagnostic.message

C17_MarkersMirrorList ==
    /\ \/ markers = <<>>
       \/ /\ Len(markers) = Len(diagnostics)
          /\ \A i \in 1..Len(markers) :
                /\ markers[i].message = diagnostics[i].message
                /\ markers[i].startLineNumber = diagnostics[i].line
                /\ diagnostics[i].ruleId # "" => markers[i].source = diagnostics[i].ruleId
    /\ markers # <<>> => settled.outcome = "ok"
    /\ \A i \in 1..Len(markers) : markers[i].source # "connection-error"

\* C17's case: the editor shows two markers, of two different diagnostics,
\* while the text holds the fix of an earlier review (only a fix writes "b"):
\* a review after the first one has set them
C17_Witness ==
    /\ Len(markers) = 2
    /\ diagnostics[1] # diagnostics[2]
    /\ markers[1].message = diagnostics[1].message
    /\ markers[2].message = diagnostics[2].message
    /\ \E k \in 1..Len(settled.request.code) : settled.request.code[k] = "b"

\* C19: the summary counts every rendered diagnostic once: its error,
\* warning, suggestion and info counts add up to the length of the list, and
\* its info count is the number of entries rendered with the Info
\* presentation, those of a severity outside the four included.
C19_SummaryCountsEveryCard ==
    LET panel == ResultsPanel(diagnostics)
        shownAsInfo == {i \in 1..Len(panel.cards) :
                           panel.cards[i].config = SEVERITY_CONFIG.info}
    IN  /\ panel.summary.error + panel.summary.warning
              + panel.summary.suggestion + panel.summary.info = Len(diagnostics)
        /\ panel.summary.info = Cardinality(shownAsInfo)

----------------------------------------------------------------------------
(* Claims: the settings and the review (SettingsSpec) *)

\* C13: when the runOnSave preference is on and no review is running, a save
\* in the editor starts a review: right after the save isReviewing is true and
\* a request is in flight.
C13_SaveStartsReview ==
    (/\ last.op = "save"
     /\ last.before.preferences.runOnSave
     /\ ~last.before.isReviewing)
    => /\ isReviewing
       /\ inflight # <<>>

\* C14: isReviewing goes from true to false only in a step that settles the
\* request in flight, whatever the user does meanwhile (edit, language,
\* preferences, theme, fix, save), and every step that settles a request,
\* with a response or with a failure, leaves isReviewing false.
C14_NoCancelBeforeSettlement ==
    [][/\ (isReviewing /\ ~isReviewing')
          => /\ Len(inflight') < Len(inflight)
             /\ settled'.outcome \in {"ok", "failed"}
       /\ Len(inflight') < Len(inflight) => ~isReviewing']_vars

\* C14's case: a review is still running after the user has edited the text,
\* chosen another language, toggled a preference and switched the theme
C14_Witness ==
    /\ isReviewing
    /\ Len(inflight) = 1
    /\ inflight[1].code # code
    /\ inflight[1].language # language
    /\ inflight[1].preferences # preferences
    /\ theme = "dark"

----------------------------------------------------------------------------
(* Claims: the preferences (PreferencesSpec) *)

\* the languages of a list, as a set
LanguagesOf(list) == {list[i] : i \in 1..Len(list)}

\* no language is twice in the list
NoDuplicate(list) == \A i, j \in 1..Len(list) : list[i] = list[j] => i = j

\* C21: every step that changes the preferences either flips one boolean
\* preference and keeps selectedLanguages and the other booleans, or keeps
\* the three booleans and takes one language out of selectedLanguages (it was
\* there) or puts one in (it was not); selectedLanguages never holds a
\* language twice; and a toggle of a language right after a toggle of the
\* same language gives back the set of languages there was before the two.
C21_ToggleTouchesOnlyItsPreference ==
    [][/\ preferences' # preferences
          => \/ /\ preferences'.selectedLanguages = preferences.selectedLanguages
                /\ \E key \in PreferenceKeys :
                      /\ preferences'[key] = ~preferences[key]
                      /\ \A other \in PreferenceKeys \ {key} :
                            preferences'[other] = preferences[other]
             \/ /\ \A key \in PreferenceKeys : preferences'[key] = preferences[key]
                /\ \E i \in 1..Len(LANGUAGES) :
                      LET old == LanguagesOf(preferences.selectedLanguages)
                          new == LanguagesOf(preferences'.selectedLanguages)
                      IN  \/ LANGUAGES[i] \in old /\ new = old \ {LANGUAGES[i]}
                          \/ LANGUAGES[i] \notin old /\ new = old \cup {LANGUAGES[i]}
       /\ DOMAIN preferences' = DOMAIN preferences
       /\ NoDuplicate(preferences.selectedLanguages)
       /\ NoDuplicate(preferences'.selectedLanguages)
       /\ (/\ last.op = "handleLanguageToggle"
           /\ last'.op = "handleLanguageToggle"
           /\ last'.langId = last.langId)
          => LanguagesOf(preferences'.selectedLanguages)
                = LanguagesOf(last.before.preferences.selectedLanguages)]_vars

\* C21's case: javascript was toggled off and on again, after LLM suggestions
\* were switched on: the languages are the same set as at the start (now in
\* another order) and the other preferences are as the feature toggle left
\* them
C21_Witness ==
    /\ last.op = "handleLanguageToggle"
    /\ last.langId = "javascript"
    /\ ~Includes(last.before.preferences.selectedLanguages, "javascript")
    /\ preferences.selectedLanguages = <<"python", "javascript">>
    /\ preferences.enableLLM
    /\ preferences.enableSecurity
    /\ ~preferences.runOnSave

----------------------------------------------------------------------------
(* Claims: the backend (DispatchSpec, ScriptSpec) *)

\* C5: when the dispatcher returns, every selected adapter has ended; an
\* adapter that failed or timed out has put exactly one diagnostic in the
\* response, a synthetic error, and every other adapter's diagnostics are in
\* the response as the tool reported them.
C5_FailedAdapterDegrades ==
    dispatch.phase = "returned"
    => /\ Len(dispatch.outcomes) = Len(AdaptersFor(dispatch.request))
       /\ \A k \in 1..Len(dispatch.outcomes) :
             LET o == dispatch.outcomes[k]
                 OfTool(d) == d.message[1] = o.tool
                 fromTool == SelectSeq(dispatch.response, OfTool)
             IN  /\ o.tool = AdaptersFor(dispatch.request)[k]
                 /\ o.result = "ok" => fromTool = o.findings
                 /\ o.result # "ok"
                    => /\ Len(fromTool) = 1
                       /\ fromTool[1].severity = "error"
                       /\ fromTool[1].ruleId = "adapter-failure"

\* C5's case: of the adapters of one request, one timed out, one failed and
\* one reported a finding
C5_Witness ==
    /\ dispatch.phase = "returned"
    /\ \E k \in 1..Len(dispatch.outcomes) : dispatch.outcomes[k].result = "timed out"
    /\ \E k \in 1..Len(dispatch.outcomes) : dispatch.outcomes[k].result = "failed"
    /\ \E k \in 1..Len(dispatch.outcomes) :
          dispatch.outcomes[k].result = "ok" /\ dispatch.outcomes[k].findings # <<>>

\* C6: a started scanner script that has not exited can always take a step:
\* when its scanner does not exit by itself, the script ends it.
C6_ScriptInvocationTimeBounded ==
    \A s \in Scripts :
        script[s].pc \notin {"idle", "exited"} => ENABLED ScriptStep(s)
====
